---------------------------- MODULE Spec2Model ----------------------------
(***************************************************************************)
(* A model of the real-time simulation core of game_demo:                  *)
(*   - GameLoopController  (frame scheduler),                               *)
(*   - WaveManager         (wave director),                                 *)
(*   - GameEngine.update   (simulation orchestrator) with the parts of      *)
(*     GameStateManager it calls.                                           *)
(* All times are integers in microseconds: 1 s = 1000000, so that the       *)
(* 0.02 s clamp, the 0.97 decay of spawnInterval and the 30 s wave duration *)
(* are all representable (spawnInterval * 0.97 is rounded down to a         *)
(* microsecond where the code rounds to a double).                          *)
(***************************************************************************)
EXTENDS Integers, Sequences, FiniteSets, TLC

VARIABLES
    \* ---- GameLoopController and the host's requestAnimationFrame queue
    animationFrameId,   \* the field; 0 models null
    lastTime,           \* the field, in milliseconds (the host's unit)
    rafPending,         \* ids of the frame requests the host holds
    stopped,            \* history: stop() was called and start() not since
    lastDelta,          \* history: deltaTime of the latest gameLoop call
    frameLog,           \* history: the calls made by the latest gameLoop call
    framesAfterStop     \* history: gameLoop calls entered while stopped

loopVars == <<animationFrameId, lastTime, rafPending, stopped, lastDelta,
              frameLog, framesAfterStop>>

VARIABLES
    \* ---- WaveManager
    wm,                 \* the fields of the WaveManager, one record
    wmOp,               \* history: the latest WaveManager operation
    wmCount,            \* history: currentEnemyCount of the latest spawnEnemies
    wmEnemies,          \* history: the list the latest spawnEnemies returned
    wmWarned,           \* history: the latest update fired onBossWarning
    hBossSpawned,       \* history: a boss was spawned in the current wave
    hDefeatSince,       \* history: onBossDefeated() was called since that spawn
    hLateCall,          \* history: the latest spawnEnemies began two wave lengths in
    wmBossCb,           \* the latest operation called onBossSpawn
    hWarnings,          \* history: onBossWarning calls in the current wave
    hBossReturned,      \* history: bosses spawnEnemies returned in the current wave
    hCleared            \* history: the latest spawnEnemies began after the spawn and
                        \* the defeat of the boss of its wave

waveVars == <<wm, wmOp, wmCount, wmEnemies, wmWarned, hBossSpawned, hDefeatSince,
              hLateCall, wmBossCb, hWarnings, hBossReturned, hCleared>>

VARIABLES
    \* ---- the orchestrated game: GameEngine and what it drives
    gs,                 \* useGameState: phase, health
    im,                 \* InputManager: keys, ignoreUntilRelease, isPaused
    gsm,                \* GameStateManager: lastPauseState, whether its save is due
    eng,                \* GameEngine: isPaused, previousPhase, currentBoss, ...
    reg,                \* EntityManager: the enemy list
    ext,                \* collaborators: call counts, session snapshot, timers
    trace               \* history: the steps of the latest GameEngine.update

engineVars == <<gs, im, gsm, eng, reg, ext, trace>>

vars == <<loopVars, waveVars, engineVars>>

Min(a, b) == IF a <= b THEN a ELSE b
Max(a, b) == IF a >= b THEN a ELSE b
Range(seq) == {seq[i] : i \in 1..Len(seq)}

(***************************************************************************)
(* Bounds of the model.                                                    *)
(***************************************************************************)
\* host timestamps are 0, 10, .., 10 * MaxHostStamp milliseconds
MaxHostStamp == 3
\* the host holds at most this many frame requests (start() calls are cut off)
MaxRequests == 2
\* at most this many gameLoop calls are counted after a stop()
MaxAfterStop == 2
\* WaveManager.update is not called once waveStartTime would pass this (61 s)
MaxWaveElapsed == 61000000
\* ... or once spawnTimer would pass this (36 s)
MaxSpawnTimer == 36000000
\* ... or once the wave number has passed this
MaxWave == 6
\* the host runs a frame every FrameGap microseconds (50 Hz)
FrameGap == 20000
\* the player's health at the start of a run
MaxHealth == 1
\* the collisions leave at most this many regular enemies alive
MaxRegular == 1
\* no frame runs once StatisticsSystem.recordRun was called this many times
MaxRecorded == 4
\* the run through the waves is followed up to this wave time in a wave (30.1 s)
LongHorizon == 30100000
\* the debug panel summons a boss only while fewer bosses than this were created
MaxDebugBosses == 2
\* the game, keyboard included, is followed for the first ShortHorizon
\* microseconds of wave time (2.06 s: the first enemy appears after 2 s)
ShortHorizon == 2060000
\* the waves the late director starts in
MaxLateWave == 30
\* the wave time up to which frames run while the keyboard is watched
KeysHorizon == 60000
\* the restarts of a run
MaxResets == 1
\* the time into a wave up to which frames run in runs that start late: the boss
\* of a boss wave is spawned bossWarningTime into the wave
WarnHorizon == 5040000

(***************************************************************************)
(* GameLoopController                                                       *)
(***************************************************************************)
\* the upper clamp of deltaTime, 0.02 s
MaxDeltaTime == 20000

HostStamps == {10 * t : t \in 0..MaxHostStamp}

\* requestAnimationFrame: the host hands out an id no live reference holds;
\* ids are opaque, so the smallest free one stands for "a new id".
FreshId(pending, held) ==
    CHOOSE i \in 1..(Cardinality(pending) + 2) :
        /\ i \notin pending
        /\ i # held
        /\ \A j \in 1..(i - 1) : j \in pending \/ j = held

\* Math.min(elapsed, 0.02), elapsed in microseconds
ClampDelta(elapsed) == Min(elapsed, MaxDeltaTime)

\* deltaTime = Math.min((currentTime - lastTime) / 1000, 0.02), in microseconds
DeltaTime(currentTime, last) == ClampDelta((currentTime - last) * 1000)

gameLoopCallsRenderFirst(dt, inUpdate, inRender) ==
    <<[op |-> "render", dt |-> dt]>> \o inRender \o
    <<[op |-> "update", dt |-> dt]>> \o inUpdate \o
    <<[op |-> "request", dt |-> dt]>>

\* the calls gameLoop makes, in order; inUpdate lists what the update callback did
gameLoopCalls(dt, inUpdate, inRender) ==
    <<[op |-> "update", dt |-> dt]>> \o inUpdate \o
    <<[op |-> "render", dt |-> dt]>> \o inRender \o
    <<[op |-> "request", dt |-> dt]>>

\* stop(): if (this.animationFrameId) { cancelAnimationFrame(id); id = null }
StopEffect(st) ==
    IF st.id # 0
    THEN [st EXCEPT !.pending = st.pending \ {st.id}, !.id = 0]
    ELSE st

\* start(): lastTime = 0; animationFrameId = requestAnimationFrame(gameLoop)
Start ==
    /\ Cardinality(rafPending) < MaxRequests
    /\ LET id == FreshId(rafPending, animationFrameId)
       IN /\ lastTime' = 0
          /\ animationFrameId' = id
          /\ rafPending' = rafPending \cup {id}
    /\ stopped' = FALSE
    /\ framesAfterStop' = 0
    /\ UNCHANGED <<lastDelta, frameLog, waveVars, engineVars>>

Stop ==
    /\ LET st == StopEffect([id |-> animationFrameId, pending |-> rafPending])
       IN /\ animationFrameId' = st.id
          /\ rafPending' = st.pending
    /\ stopped' = TRUE
    /\ UNCHANGED <<lastTime, lastDelta, frameLog, framesAfterStop, waveVars, engineVars>>

\* The host runs the pending request id with timestamp currentTime.  The update
\* and render callbacks are the caller's: each may call stop() on the controller.
GameLoop(id, currentTime, stopInUpdate, stopInRender) ==
    /\ id \in rafPending
    /\ framesAfterStop < MaxAfterStop
    /\ LET dt   == DeltaTime(currentTime, lastTime)
           s0   == [id |-> animationFrameId, pending |-> rafPending \ {id}]
           s1   == IF stopInUpdate THEN StopEffect(s0) ELSE s0
           s2   == IF stopInRender THEN StopEffect(s1) ELSE s1
           next == FreshId(s2.pending, s2.id)
       IN /\ lastTime' = currentTime
          /\ lastDelta' = dt
          /\ frameLog' = gameLoopCalls(dt,
                            IF stopInUpdate THEN <<[op |-> "stop", dt |-> dt]>> ELSE <<>>,
                            IF stopInRender THEN <<[op |-> "stop", dt |-> dt]>> ELSE <<>>)
          /\ animationFrameId' = next
          /\ rafPending' = s2.pending \cup {next}
    /\ stopped' = (stopped \/ stopInUpdate \/ stopInRender)
    /\ framesAfterStop' = IF stopped THEN framesAfterStop + 1 ELSE framesAfterStop
    /\ UNCHANGED <<waveVars, engineVars>>

\* The host runs the pending request id and the update callback throws: the
\* exception leaves gameLoop, which has no handler, at the call of the callback.
GameLoopThrows(id, currentTime) ==
    /\ id \in rafPending
    /\ framesAfterStop < MaxAfterStop
    /\ LET dt == DeltaTime(currentTime, lastTime)
       IN /\ lastTime' = currentTime
          /\ lastDelta' = dt
          /\ frameLog' = <<[op |-> "update", dt |-> dt], [op |-> "throw", dt |-> dt]>>
    /\ rafPending' = rafPending \ {id}
    /\ framesAfterStop' = IF stopped THEN framesAfterStop + 1 ELSE framesAfterStop
    /\ UNCHANGED <<animationFrameId, stopped>>
    /\ UNCHANGED <<waveVars, engineVars>>

(***************************************************************************)
(* WaveManager                                                              *)
(***************************************************************************)
waveDuration == 30000000
bossWarningTime == 5000000
maxEnemiesCap == 80
bossSpawnInterval == 5
\* the literal 5 of update(): waveStartTime >= (bossWarningTime - 5)
warningLead == 5000000
\* the field initialisers, which reset() repeats
initSpawnInterval == 2000000
initMaxActiveEnemies == 25

bossTypes == <<"necromancer", "vampire_lord", "ancient_golem">>

\* JavaScript's %: the sign of the result is the sign of the dividend
JsRem(a, n) == IF a >= 0 THEN a % n ELSE 0 - ((0 - a) % n)

\* Math.floor(a / b) for b > 0
FloorDiv(a, b) == IF a >= 0 THEN a \div b ELSE 0 - (((0 - a) + b - 1) \div b)

\* the fields as the initialisers leave them
NewWaveManager ==
    [currentWave |-> 1, spawnTimer |-> 0, spawnInterval |-> initSpawnInterval,
     waveStartTime |-> 0, maxActiveEnemies |-> initMaxActiveEnemies,
     bossSpawned |-> FALSE, bossDefeated |-> FALSE,
     bossWarningTriggered |-> FALSE, timeUntilBoss |-> 0]

isBossWave(w) == w.currentWave % bossSpawnInterval = 0

isBossActiveIgnoringDefeat(w) == isBossWave(w) /\ w.bossSpawned

isBossActive(w) == isBossWave(w) /\ w.bossSpawned /\ ~w.bossDefeated

getTimeUntilBoss(w) ==
    IF ~isBossWave(w) \/ w.bossSpawned THEN 0
    ELSE Max(0, bossWarningTime - w.waveStartTime)

bossIndexWithoutOffset(wave) == JsRem(FloorDiv(wave, bossSpawnInterval), Len(bossTypes))

\* bossIndex = Math.floor((currentWave / bossSpawnInterval) - 1) % bossTypes.length;
\* an index outside the array reads undefined
bossIndex(wave) == JsRem(FloorDiv(wave, bossSpawnInterval) - 1, Len(bossTypes))

bossTypeAt(i) == IF i \in 0..(Len(bossTypes) - 1) THEN bossTypes[i + 1] ELSE "undefined"

\* new BossEnemy(x, y, bossType, this.currentWave); the position is left out
spawnBoss(w) ==
    [kind |-> "boss", type |-> bossTypeAt(bossIndex(w.currentWave)), wave |-> w.currentWave]

\* EnemyFactory.createRandomEnemy(pos.x, pos.y, this.currentWave)
createRandomEnemy(w) == [kind |-> "regular", type |-> "random", wave |-> w.currentWave]

advanceWaveCatchingUp(w) ==
    [w EXCEPT !.currentWave = @ + Max(1, w.waveStartTime \div waveDuration),
              !.waveStartTime = 0,
              !.spawnInterval = Max(1000000, (@ * 97) \div 100),
              !.maxActiveEnemies = Min(maxEnemiesCap, @ + 5),
              !.bossSpawned = FALSE,
              !.bossDefeated = FALSE,
              !.bossWarningTriggered = FALSE,
              !.timeUntilBoss = 0]

advanceWaveUncapped(w) ==
    [w EXCEPT !.currentWave = @ + 1,
              !.waveStartTime = 0,
              !.spawnInterval = Max(1000000, (@ * 97) \div 100),
              !.maxActiveEnemies = @ + 5,
              !.bossSpawned = FALSE,
              !.bossDefeated = FALSE,
              !.bossWarningTriggered = FALSE,
              !.timeUntilBoss = 0]

advanceWaveKeepingBoss(w) ==
    [w EXCEPT !.currentWave = @ + 1,
              !.waveStartTime = 0,
              !.spawnInterval = Max(1000000, (@ * 97) \div 100),
              !.maxActiveEnemies = Min(maxEnemiesCap, @ + 5),
              !.bossDefeated = FALSE,
              !.bossWarningTriggered = FALSE,
              !.timeUntilBoss = 0]

advanceWave(w) ==
    [w EXCEPT !.currentWave = @ + 1,
              !.waveStartTime = 0,
              !.spawnInterval = Max(1000000, (@ * 97) \div 100),
              !.maxActiveEnemies = Min(maxEnemiesCap, @ + 5),
              !.bossSpawned = FALSE,
              !.bossDefeated = FALSE,
              !.bossWarningTriggered = FALSE,
              !.timeUntilBoss = 0]

updateWarningEachCall(w, deltaTime) ==
    LET w1 == [w EXCEPT !.waveStartTime = @ + deltaTime, !.spawnTimer = @ + deltaTime]
    IN  IF isBossWave(w1) /\ ~w1.bossSpawned
        THEN LET w2   == [w1 EXCEPT !.timeUntilBoss =
                                       Max(0, bossWarningTime - w1.waveStartTime)]
                 fire == w2.waveStartTime >= bossWarningTime - warningLead
             IN  [wm |-> IF fire THEN [w2 EXCEPT !.bossWarningTriggered = TRUE] ELSE w2,
                  warning |-> fire]
        ELSE [wm |-> w1, warning |-> FALSE]

\* update(deltaTime): the new fields, and whether onBossWarning was called
update(w, deltaTime) ==
    LET w1 == [w EXCEPT !.waveStartTime = @ + deltaTime, !.spawnTimer = @ + deltaTime]
    IN  IF isBossWave(w1) /\ ~w1.bossSpawned
        THEN LET w2   == [w1 EXCEPT !.timeUntilBoss =
                                       Max(0, bossWarningTime - w1.waveStartTime)]
                 fire == /\ w2.waveStartTime >= bossWarningTime - warningLead
                         /\ ~w2.bossWarningTriggered
             IN  [wm |-> IF fire THEN [w2 EXCEPT !.bossWarningTriggered = TRUE] ELSE w2,
                  warning |-> fire]
        ELSE [wm |-> w1, warning |-> FALSE]

spawnEnemiesUpToCap(w, currentEnemyCount) ==
    IF isBossWave(w)
    THEN LET spawn   == ~w.bossSpawned /\ w.waveStartTime >= bossWarningTime
             enemies == IF spawn THEN <<spawnBoss(w)>> ELSE <<>>
             w1      == IF spawn THEN [w EXCEPT !.bossSpawned = TRUE] ELSE w
         IN  IF w1.bossSpawned /\ ~w1.bossDefeated
             THEN [wm |-> w1, enemies |-> enemies, bossSpawn |-> spawn]
             ELSE IF w1.bossDefeated /\ w1.waveStartTime >= waveDuration
             THEN [wm |-> advanceWave(w1), enemies |-> enemies, bossSpawn |-> spawn]
             ELSE [wm |-> w1, enemies |-> enemies, bossSpawn |-> spawn]
    ELSE LET w1    == IF w.waveStartTime >= waveDuration THEN advanceWave(w) ELSE w
             spawn == /\ w1.spawnTimer >= w1.spawnInterval
                      /\ currentEnemyCount <= w1.maxActiveEnemies
         IN  IF spawn
             THEN [wm |-> [w1 EXCEPT !.spawnTimer = 0],
                   enemies |-> <<createRandomEnemy(w1)>>, bossSpawn |-> FALSE]
             ELSE [wm |-> w1, enemies |-> <<>>, bossSpawn |-> FALSE]

spawnEnemiesBossAgainAfterDefeat(w, currentEnemyCount) ==
    IF isBossWave(w)
    THEN LET spawn   == (~w.bossSpawned \/ w.bossDefeated) /\ w.waveStartTime >= bossWarningTime
             enemies == IF spawn THEN <<spawnBoss(w)>> ELSE <<>>
             w1      == IF spawn THEN [w EXCEPT !.bossSpawned = TRUE] ELSE w
         IN  IF w1.bossSpawned /\ ~w1.bossDefeated
             THEN [wm |-> w1, enemies |-> enemies, bossSpawn |-> spawn]
             ELSE IF w1.waveStartTime >= waveDuration
             THEN [wm |-> advanceWave(w1), enemies |-> enemies, bossSpawn |-> spawn]
             ELSE [wm |-> w1, enemies |-> enemies, bossSpawn |-> spawn]
    ELSE LET w1    == IF w.waveStartTime >= waveDuration THEN advanceWave(w) ELSE w
             spawn == /\ w1.spawnTimer >= w1.spawnInterval
                      /\ currentEnemyCount < w1.maxActiveEnemies
         IN  IF spawn
             THEN [wm |-> [w1 EXCEPT !.spawnTimer = 0],
                   enemies |-> <<createRandomEnemy(w1)>>, bossSpawn |-> FALSE]
             ELSE [wm |-> w1, enemies |-> <<>>, bossSpawn |-> FALSE]

spawnEnemiesAdvancingUndefeated(w, currentEnemyCount) ==
    IF isBossWave(w)
    THEN LET spawn   == ~w.bossSpawned /\ w.waveStartTime >= bossWarningTime
             enemies == IF spawn THEN <<spawnBoss(w)>> ELSE <<>>
             w1      == IF spawn THEN [w EXCEPT !.bossSpawned = TRUE] ELSE w
         IN  IF w1.bossSpawned /\ ~w1.bossDefeated /\ w1.waveStartTime < waveDuration
             THEN [wm |-> w1, enemies |-> enemies, bossSpawn |-> spawn]
             ELSE IF w1.waveStartTime >= waveDuration
             THEN [wm |-> advanceWave(w1), enemies |-> enemies, bossSpawn |-> spawn]
             ELSE [wm |-> w1, enemies |-> enemies, bossSpawn |-> spawn]
    ELSE LET w1    == IF w.waveStartTime >= waveDuration THEN advanceWave(w) ELSE w
             spawn == /\ w1.spawnTimer >= w1.spawnInterval
                      /\ currentEnemyCount < w1.maxActiveEnemies
         IN  IF spawn
             THEN [wm |-> [w1 EXCEPT !.spawnTimer = 0],
                   enemies |-> <<createRandomEnemy(w1)>>, bossSpawn |-> FALSE]
             ELSE [wm |-> w1, enemies |-> <<>>, bossSpawn |-> FALSE]

spawnEnemiesKeepingCooldown(w, currentEnemyCount) ==
    IF isBossWave(w)
    THEN LET spawn   == ~w.bossSpawned /\ w.waveStartTime >= bossWarningTime
             enemies == IF spawn THEN <<spawnBoss(w)>> ELSE <<>>
             w1      == IF spawn THEN [w EXCEPT !.bossSpawned = TRUE] ELSE w
         IN  IF w1.bossSpawned /\ ~w1.bossDefeated
             THEN [wm |-> w1, enemies |-> enemies, bossSpawn |-> spawn]
             ELSE IF w1.waveStartTime >= waveDuration
             THEN [wm |-> advanceWave(w1), enemies |-> enemies, bossSpawn |-> spawn]
             ELSE [wm |-> w1, enemies |-> enemies, bossSpawn |-> spawn]
    ELSE LET w1    == IF w.waveStartTime >= waveDuration THEN advanceWave(w) ELSE w
             spawn == /\ w1.spawnTimer >= w1.spawnInterval
                      /\ currentEnemyCount < w1.maxActiveEnemies
         IN  IF spawn
             THEN [wm |-> w1,
                   enemies |-> <<createRandomEnemy(w1)>>, bossSpawn |-> FALSE]
             ELSE [wm |-> w1, enemies |-> <<>>, bossSpawn |-> FALSE]

\* spawnEnemies(.., currentEnemyCount, ..): the new fields, the list returned, and
\* whether onBossSpawn was called (with the boss that heads the list)
spawnEnemies(w, currentEnemyCount) ==
    IF isBossWave(w)
    THEN LET spawn   == ~w.bossSpawned /\ w.waveStartTime >= bossWarningTime
             enemies == IF spawn THEN <<spawnBoss(w)>> ELSE <<>>
             w1      == IF spawn THEN [w EXCEPT !.bossSpawned = TRUE] ELSE w
         IN  IF w1.bossSpawned /\ ~w1.bossDefeated
             THEN [wm |-> w1, enemies |-> enemies, bossSpawn |-> spawn]
             ELSE IF w1.bossDefeated /\ w1.waveStartTime >= waveDuration
             THEN [wm |-> advanceWave(w1), enemies |-> enemies, bossSpawn |-> spawn]
             ELSE [wm |-> w1, enemies |-> enemies, bossSpawn |-> spawn]
    ELSE LET w1    == IF w.waveStartTime >= waveDuration THEN advanceWave(w) ELSE w
             spawn == /\ w1.spawnTimer >= w1.spawnInterval
                      /\ currentEnemyCount < w1.maxActiveEnemies
         IN  IF spawn
             THEN [wm |-> [w1 EXCEPT !.spawnTimer = 0],
                   enemies |-> <<createRandomEnemy(w1)>>, bossSpawn |-> FALSE]
             ELSE [wm |-> w1, enemies |-> <<>>, bossSpawn |-> FALSE]

onBossDefeatedAdvancing(w) == advanceWave([w EXCEPT !.bossDefeated = TRUE])

onBossDefeated(w) == [w EXCEPT !.bossDefeated = TRUE]

resetKeepingCap(w) ==
    [w EXCEPT !.currentWave = 1, !.spawnTimer = 0, !.waveStartTime = 0,
              !.spawnInterval = initSpawnInterval,
              !.bossSpawned = FALSE, !.bossDefeated = FALSE,
              !.bossWarningTriggered = FALSE, !.timeUntilBoss = 0]

\* reset() (waveDuration, maxEnemiesCap and the boss constants are never assigned)
reset(w) ==
    [w EXCEPT !.currentWave = 1, !.spawnTimer = 0, !.waveStartTime = 0,
              !.spawnInterval = initSpawnInterval,
              !.maxActiveEnemies = initMaxActiveEnemies,
              !.bossSpawned = FALSE, !.bossDefeated = FALSE,
              !.bossWarningTriggered = FALSE, !.timeUntilBoss = 0]

\* ---- the WaveManager driven on its own, by any caller
\* the deltaTime values a caller passes: 0, 1 s, 5 s, 30 s
WaveDeltas == {0, 1000000, 5000000, 30000000}

\* the currentEnemyCount values a caller passes, around the cap before and after
\* an advance
WaveCounts(w) ==
    {0, w.maxActiveEnemies - 1, w.maxActiveEnemies,
     w.maxActiveEnemies + 4, w.maxActiveEnemies + 5}

NumBoss(enemies) == Cardinality({i \in 1..Len(enemies) : enemies[i].kind = "boss"})

\* the history of the boss of the current wave, kept beside the fields
BossHistoryAfter(before, after, spawnedNow) ==
    IF after.currentWave # before.currentWave
    THEN [spawned |-> FALSE, defeat |-> FALSE]
    ELSE IF spawnedNow THEN [spawned |-> TRUE, defeat |-> FALSE]
    ELSE [spawned |-> hBossSpawned, defeat |-> hDefeatSince]

WaveUpdate(dt) ==
    /\ wm.currentWave <= MaxWave
    /\ wm.waveStartTime + dt <= MaxWaveElapsed
    /\ wm.spawnTimer + dt <= MaxSpawnTimer
    /\ LET r == update(wm, dt)
       IN /\ wm' = r.wm
          /\ wmWarned' = r.warning
          /\ hWarnings' = IF r.warning THEN hWarnings + 1 ELSE hWarnings
    /\ wmOp' = "update"
    /\ wmBossCb' = FALSE
    /\ hCleared' = FALSE
    /\ UNCHANGED <<wmCount, wmEnemies, hBossSpawned, hDefeatSince, hLateCall,
                   hBossReturned>>
    /\ UNCHANGED <<loopVars, engineVars>>

WaveSpawnEnemies(count) ==
    /\ LET r == spawnEnemies(wm, count)
           h == BossHistoryAfter(wm, r.wm, r.bossSpawn)
       IN /\ wm' = r.wm
          /\ wmEnemies' = r.enemies
          /\ hBossSpawned' = h.spawned
          /\ hDefeatSince' = h.defeat
          /\ wmBossCb' = r.bossSpawn
          /\ hWarnings' = IF r.wm.currentWave # wm.currentWave THEN 0 ELSE hWarnings
          /\ hBossReturned' = IF r.wm.currentWave # wm.currentWave THEN 0
                              ELSE hBossReturned + NumBoss(r.enemies)
    /\ hCleared' = (hBossSpawned /\ hDefeatSince)
    /\ wmOp' = "spawnEnemies"
    /\ wmCount' = count
    /\ wmWarned' = FALSE
    /\ hLateCall' = (wm.waveStartTime >= 2 * waveDuration)
    /\ UNCHANGED <<loopVars, engineVars>>

WaveOnBossDefeated ==
    /\ wm' = onBossDefeated(wm)
    /\ wmOp' = "onBossDefeated"
    /\ hDefeatSince' = hBossSpawned
    /\ wmWarned' = FALSE
    /\ wmBossCb' = FALSE
    /\ hCleared' = FALSE
    /\ UNCHANGED <<wmCount, wmEnemies, hBossSpawned, hLateCall, hWarnings, hBossReturned>>
    /\ UNCHANGED <<loopVars, engineVars>>

WaveReset ==
    /\ wm' = reset(wm)
    /\ wmOp' = "reset"
    /\ hBossSpawned' = FALSE
    /\ hDefeatSince' = FALSE
    /\ wmWarned' = FALSE
    /\ wmBossCb' = FALSE
    /\ hCleared' = FALSE
    /\ hWarnings' = 0
    /\ hBossReturned' = 0
    /\ UNCHANGED <<wmCount, wmEnemies, hLateCall>>
    /\ UNCHANGED <<loopVars, engineVars>>

(***************************************************************************)
(* InputManager                                                             *)
(***************************************************************************)
MovementKeys ==
    {"KeyW", "KeyA", "KeyS", "KeyD", "ArrowUp", "ArrowDown", "ArrowLeft", "ArrowRight"}

\* the key codes the keyboard events of the model carry
KeyCodes == {"Escape"}

NewInputManager == [keys |-> {}, ignoreUntilRelease |-> {}, isPaused |-> FALSE]

handleKeyDown(m, code) ==
    IF code \in MovementKeys /\ m.isPaused THEN m
    ELSE IF code \notin m.ignoreUntilRelease THEN [m EXCEPT !.keys = @ \cup {code}]
    ELSE m

handleKeyUp(m, code) ==
    [m EXCEPT !.keys = @ \ {code}, !.ignoreUntilRelease = @ \ {code}]

emptyInput ==
    [up |-> FALSE, down |-> FALSE, left |-> FALSE, right |-> FALSE, pause |-> FALSE]

getInputIgnoringPaused(m, paused) ==
    [up    |-> "KeyW" \in m.keys \/ "ArrowUp" \in m.keys,
     down  |-> "KeyS" \in m.keys \/ "ArrowDown" \in m.keys,
     left  |-> "KeyA" \in m.keys \/ "ArrowLeft" \in m.keys,
     right |-> "KeyD" \in m.keys \/ "ArrowRight" \in m.keys,
     pause |-> "Escape" \in m.keys]

\* getInput(paused); the weapon, mute and restart fields are left out
getInput(m, paused) ==
    IF paused THEN emptyInput
    ELSE [up    |-> "KeyW" \in m.keys \/ "ArrowUp" \in m.keys,
          down  |-> "KeyS" \in m.keys \/ "ArrowDown" \in m.keys,
          left  |-> "KeyA" \in m.keys \/ "ArrowLeft" \in m.keys,
          right |-> "KeyD" \in m.keys \/ "ArrowRight" \in m.keys,
          pause |-> "Escape" \in m.keys]

setPaused(m, paused) == [m EXCEPT !.isPaused = paused]

clearMovementKeysKeepingState(m) ==
    [m EXCEPT !.ignoreUntilRelease = @ \cup (m.keys \cap MovementKeys)]

clearMovementKeys(m) ==
    [m EXCEPT !.ignoreUntilRelease = @ \cup (m.keys \cap MovementKeys),
              !.keys = @ \ MovementKeys]

(***************************************************************************)
(* useGameState (the store), StatisticsSystem, PersistentProgressionSystem  *)
(* and EntityManager are not among the sources: their operations are       *)
(* modelled from the design document.                                       *)
(***************************************************************************)
storeStart(g)  == IF g.phase = "ready" THEN [g EXCEPT !.phase = "playing"] ELSE g
storePause(g)  == IF g.phase = "playing" THEN [g EXCEPT !.phase = "paused"] ELSE g
storeResume(g) == IF g.phase = "paused" THEN [g EXCEPT !.phase = "playing"] ELSE g
storeEnd(g)    == IF g.phase = "playing" THEN [g EXCEPT !.phase = "gameOver"] ELSE g
storeRestart(g) == [g EXCEPT !.phase = "ready", !.health = MaxHealth]
storeShowLevelUp(g) == IF g.phase = "playing" THEN [g EXCEPT !.phase = "levelUp"] ELSE g
storeResumeFromLevelUp(g) ==
    IF g.phase = "levelUp" THEN [g EXCEPT !.phase = "playing"] ELSE g

\* the enemy list: regular enemies are counted, a boss is an entry holding its id
\* and orbs tells whether an experience orb lies on the ground
NewRegistry == [nRegular |-> 0, bossEntries |-> <<>>, bosses |-> <<>>, orbs |-> FALSE]

\* new BossEnemy(..): the entity gets the next id
newBossId(r) == Len(r.bosses) + 1

createBoss(r, b, debug) ==
    [r EXCEPT !.bosses = Append(@, [alive |-> TRUE, debug |-> debug, wave |-> b.wave])]

\* addBoss(boss) and addEnemies([.., boss, ..]) append to the enemy list
appendBoss(r, id) == [r EXCEPT !.bossEntries = Append(@, id)]

addEnemies(r, enemies, id) ==
    IF enemies = <<>> THEN r
    ELSE IF enemies[1].kind = "boss" THEN appendBoss(r, id)
    ELSE [r EXCEPT !.nRegular = @ + Len(enemies)]

enemyCount(r) == r.nRegular + Len(r.bossEntries)

\* EntityManager.update: every entity whose alive flag is false leaves its list
entityUpdate(r) ==
    [r EXCEPT !.bossEntries = SelectSeq(@, LAMBDA id : r.bosses[id].alive)]

bossIsAlive(r, id) == r.bosses[id].alive

\* the distinct boss entities in the enemy list
bossesInRegistry(r) == {r.bossEntries[i] : i \in 1..Len(r.bossEntries)}

(***************************************************************************)
(* GameStateManager and GameEngine                                          *)
(***************************************************************************)
\* setTimeout(() => gameState.end(), 50)
deathGrace == 50000

\* Of lastStatsSaveTime the model keeps saveDue, whether
\* Date.now() - lastStatsSaveTime >= STATS_SAVE_INTERVAL: true from the start
\* (lastStatsSaveTime = 0), false after a save, true again once 30 s have passed.

Step(S, name) == [S EXCEPT !.trace = Append(@, name)]

\* GameStateManager.saveCurrentSessionStats
gsmSaveCurrentSessionStats(S) ==
    IF S.gs.phase # "playing" /\ S.gs.phase # "paused" THEN S
    ELSE Step([S EXCEPT !.ext.snapshot = TRUE, !.gsm.saveDue = FALSE], "saveSessionSnapshot")

\* GameEngine.saveCurrentSessionStats
engSaveCurrentSessionStats(S) ==
    Step([S EXCEPT !.ext.snapshot = TRUE, !.eng.saveDue = FALSE], "saveSessionSnapshot")

handlePauseInputLevelTriggered(S, input) ==
    IF input.pause /\ S.gs.phase = "playing"
    THEN LET S1 == gsmSaveCurrentSessionStats(S)
         IN  Step([S1 EXCEPT !.gs = storePause(@), !.gsm.lastPauseState = input.pause],
                  "pause")
    ELSE IF input.pause /\ S.gs.phase = "paused"
    THEN Step([S EXCEPT !.gs = storeResume(@), !.gsm.lastPauseState = input.pause],
              "resume")
    ELSE [S EXCEPT !.gsm.lastPauseState = input.pause]

handlePauseInputPausingFirst(S, input) ==
    IF input.pause /\ ~S.gsm.lastPauseState /\ S.gs.phase = "playing"
    THEN LET S1 == Step([S EXCEPT !.gs = storePause(@), !.gsm.lastPauseState = input.pause],
                        "pause")
         IN  gsmSaveCurrentSessionStats(S1)
    ELSE IF input.pause /\ ~S.gsm.lastPauseState /\ S.gs.phase = "paused"
    THEN Step([S EXCEPT !.gs = storeResume(@), !.gsm.lastPauseState = input.pause],
              "resume")
    ELSE [S EXCEPT !.gsm.lastPauseState = input.pause]

\* GameStateManager.handlePauseInput
handlePauseInput(S, input) ==
    IF input.pause /\ ~S.gsm.lastPauseState /\ S.gs.phase = "playing"
    THEN LET S1 == gsmSaveCurrentSessionStats(S)
         IN  Step([S1 EXCEPT !.gs = storePause(@), !.gsm.lastPauseState = input.pause],
                  "pause")
    ELSE IF input.pause /\ ~S.gsm.lastPauseState /\ S.gs.phase = "paused"
    THEN Step([S EXCEPT !.gs = storeResume(@), !.gsm.lastPauseState = input.pause],
              "resume")
    ELSE [S EXCEPT !.gsm.lastPauseState = input.pause]

checkPlayerDeath(S) == S.gs.health <= 0 /\ S.gs.phase = "playing"

\* GameStateManager.handlePlayerDeath, called by GameEngine.handlePlayerDeath
handlePlayerDeath(S) ==
    Step([S EXCEPT !.ext.recordRun = @ + 1,
                   !.ext.recordRunEnd = @ + 1,
                   !.ext.addCurrency = @ + 1,
                   !.ext.snapshot = FALSE,
                   !.ext.timers = Append(@, deathGrace)],
         "handlePlayerDeath")

handleBossDefeatedKeepingBoss(S) ==
    Step([S EXCEPT !.ext.bossDefeats = @ + 1,
                   !.ext.defeated = @ \cup {S.eng.currentBoss},
                   !.reg.orbs = TRUE],
         "handleBossDefeated")

\* GameEngine.handleBossDefeated
handleBossDefeated(S) ==
    Step([S EXCEPT !.ext.bossDefeats = @ + 1,
                   !.ext.defeated = @ \cup {S.eng.currentBoss},
                   !.reg.orbs = TRUE,
                   !.eng.currentBoss = 0,
                   !.eng.isBossActive = FALSE],
         "handleBossDefeated")

\* GameStateManager.update: combo and screen shake are left out
gsmUpdate(S) ==
    LET S1 == Step(S, "gameStateManager.update")
    IN  IF S1.gsm.saveDue THEN gsmSaveCurrentSessionStats(S1) ELSE S1

handleBossWarningWithoutOffset(wave) ==
    bossTypeAt(JsRem(FloorDiv(wave, 5), Len(bossTypes)))

\* GameStateManager.handleBossWarning(wave): the boss type whose name and
\* description it announces; bossInfo[undefined] has no name and the call throws
handleBossWarning(wave) ==
    bossTypeAt(JsRem(FloorDiv(wave, 5) - 1, Len(bossTypes)))

\* waveManager.update(deltaTime) with the onBossWarning callback of setupBossCallbacks
engWaveUpdate(S, dt) ==
    LET r  == update(S.wm, dt)
        S1 == Step([S EXCEPT !.wm = r.wm], "waveManager.update")
    IN  IF r.warning
        THEN Step([S1 EXCEPT !.ext.announced = handleBossWarning(S1.wm.currentWave),
                             !.ext.spawnedType = "none"],
                  "handleBossWarning")
        ELSE S1

\* waveManager.spawnEnemies(..) with the onBossSpawn callback of setupBossCallbacks,
\* then entityManager.addEnemies(newEnemies)
engSpawnEnemies(S) ==
    LET r   == spawnEnemies(S.wm, enemyCount(S.reg))
        id  == newBossId(S.reg)
        S1  == Step([S EXCEPT !.wm = r.wm], "spawnEnemies")
        S2  == IF r.bossSpawn
               THEN [S1 EXCEPT !.reg = appendBoss(createBoss(@, r.enemies[1], FALSE), id),
                               !.ext.spawnedType = r.enemies[1].type,
                               !.eng.currentBoss = id,
                               !.eng.isBossActive = TRUE]
               ELSE S1
    IN  [S2 EXCEPT !.reg = addEnemies(@, r.enemies, id)]

\* collisionHandler.handleAllCollisions(): what the collisions of the frame did
\* (c.damage to the player, c.kills regular enemies and the bosses c.bossKills
\*  killed, c.levelUp a level reached) is the environment's choice
\* An enemy in the list can hurt the player, a regular enemy killed leaves an
\* experience orb, and picking up an orb can reach a level.
handleAllCollisions(S, c) ==
    LET S1    == Step(S, "handleAllCollisions")
        kills == Min(c.kills, S.reg.nRegular)
        g1    == IF enemyCount(S.reg) > 0
                 THEN [S1.gs EXCEPT !.health = @ - c.damage] ELSE S1.gs
    IN  [S1 EXCEPT !.gs = IF c.levelUp /\ S.reg.orbs THEN storeShowLevelUp(g1) ELSE g1,
                   !.reg.nRegular = @ - kills,
                   !.reg.orbs = @ \/ kills > 0,
                   !.reg.bosses = [i \in 1..Len(@) |->
                                      IF i \in c.bossKills
                                      THEN [@[i] EXCEPT !.alive = FALSE] ELSE @[i]]]

updatePlayingCollisionsFirst(S, dt, c) ==
    LET S1 == IF S.eng.saveDue THEN engSaveCurrentSessionStats(S) ELSE S
    IN  IF checkPlayerDeath(S1) THEN handlePlayerDeath(S1)
        ELSE LET S2 == Step(Step([S1 EXCEPT !.ext.playerInput =
                                                 getInput(S1.im, S1.eng.isPaused)],
                                      "getInput"),
                                 "player.update")
                 S3 == engWaveUpdate(S2, dt)
                 S4 == engSpawnEnemies(S3)
                 S5 == handleAllCollisions(S4, c)
                 S6 == Step([S5 EXCEPT !.reg = entityUpdate(@)], "entityManager.update")
                 S7 == gsmUpdate(S6)
             IN  IF /\ S7.eng.currentBoss # 0
                    /\ ~bossIsAlive(S7.reg, S7.eng.currentBoss)
                    /\ S7.eng.isBossActive
                 THEN handleBossDefeated(S7) ELSE S7

updatePlayingWithoutSave(S, dt, c) ==
    LET S1 == S
    IN  IF checkPlayerDeath(S1) THEN handlePlayerDeath(S1)
        ELSE LET S2 == Step(Step([S1 EXCEPT !.ext.playerInput =
                                                 getInput(S1.im, S1.eng.isPaused)],
                                      "getInput"),
                                 "player.update")
                 S3 == engWaveUpdate(S2, dt)
                 S4 == engSpawnEnemies(S3)
                 S5 == Step([S4 EXCEPT !.reg = entityUpdate(@)], "entityManager.update")
                 S6 == handleAllCollisions(S5, c)
                 S7 == gsmUpdate(S6)
             IN  IF /\ S7.eng.currentBoss # 0
                    /\ ~bossIsAlive(S7.reg, S7.eng.currentBoss)
                    /\ S7.eng.isBossActive
                 THEN handleBossDefeated(S7) ELSE S7

\* GameEngine.update(deltaTime) from "Periodically save session stats" on
updatePlaying(S, dt, c) ==
    LET S1 == IF S.eng.saveDue THEN engSaveCurrentSessionStats(S) ELSE S
    IN  IF checkPlayerDeath(S1) THEN handlePlayerDeath(S1)
        ELSE LET S2 == Step(Step([S1 EXCEPT !.ext.playerInput =
                                                 getInput(S1.im, S1.eng.isPaused)],
                                      "getInput"),
                                 "player.update")
                 S3 == engWaveUpdate(S2, dt)
                 S4 == engSpawnEnemies(S3)
                 S5 == Step([S4 EXCEPT !.reg = entityUpdate(@)], "entityManager.update")
                 S6 == handleAllCollisions(S5, c)
                 S7 == gsmUpdate(S6)
             IN  IF /\ S7.eng.currentBoss # 0
                    /\ ~bossIsAlive(S7.reg, S7.eng.currentBoss)
                    /\ S7.eng.isBossActive
                 THEN handleBossDefeated(S7) ELSE S7

engineUpdatePausedWaveRuns(S0, dt, c) ==
    LET input == getInput(S0.im, FALSE)
        S1    == handlePauseInput(Step(Step(S0, "getInput"), "handlePauseInput"), input)
        phase == S1.gs.phase
        S2    == [S1 EXCEPT !.eng.isPaused = (phase = "paused"),
                            !.im = setPaused(@, phase = "paused" \/ phase = "levelUp")]
        S3    == IF S1.eng.previousPhase \in {"paused", "levelUp"} /\ phase = "playing"
                 THEN Step([S2 EXCEPT !.im = clearMovementKeys(@)], "clearMovementKeys")
                 ELSE S2
        S4    == [S3 EXCEPT !.eng.previousPhase = phase]
        S5    == Step([S4 EXCEPT !.ext.playerInput = emptyInput], "player.update(empty)")
    IN  IF S4.eng.isPaused
        THEN engWaveUpdate(Step([S5 EXCEPT !.reg = entityUpdate(@)],
                                "entityManager.update"), dt)
        ELSE IF phase = "gameOver"
        THEN engWaveUpdate(Step([S4 EXCEPT !.reg = entityUpdate(@)],
                                "entityManager.update"), dt)
        ELSE IF phase = "levelUp"
        THEN engWaveUpdate(Step([S5 EXCEPT !.reg = entityUpdate(@)],
                                "entityManager.update"), dt)
        ELSE updatePlaying(S4, dt, c)

engineUpdateLevelUpFrozen(S0, dt, c) ==
    LET input == getInput(S0.im, FALSE)
        S1    == handlePauseInput(Step(Step(S0, "getInput"), "handlePauseInput"), input)
        phase == S1.gs.phase
        S2    == [S1 EXCEPT !.eng.isPaused = (phase = "paused"),
                            !.im = setPaused(@, phase = "paused" \/ phase = "levelUp")]
        S3    == IF S1.eng.previousPhase \in {"paused", "levelUp"} /\ phase = "playing"
                 THEN Step([S2 EXCEPT !.im = clearMovementKeys(@)], "clearMovementKeys")
                 ELSE S2
        S4    == [S3 EXCEPT !.eng.previousPhase = phase]
        S5    == Step([S4 EXCEPT !.ext.playerInput = emptyInput], "player.update(empty)")
    IN  IF S4.eng.isPaused
        THEN Step([S5 EXCEPT !.reg = entityUpdate(@)], "entityManager.update")
        ELSE IF phase = "gameOver"
        THEN engWaveUpdate(Step([S4 EXCEPT !.reg = entityUpdate(@)],
                                "entityManager.update"), dt)
        ELSE IF phase = "levelUp"
        THEN Step([S5 EXCEPT !.reg = entityUpdate(@)], "entityManager.update")
        ELSE updatePlaying(S4, dt, c)

\* GameEngine.update(deltaTime)
engineUpdate(S0, dt, c) ==
    LET input == getInput(S0.im, FALSE)
        S1    == handlePauseInput(Step(Step(S0, "getInput"), "handlePauseInput"), input)
        phase == S1.gs.phase
        S2    == [S1 EXCEPT !.eng.isPaused = (phase = "paused"),
                            !.im = setPaused(@, phase = "paused" \/ phase = "levelUp")]
        S3    == IF S1.eng.previousPhase \in {"paused", "levelUp"} /\ phase = "playing"
                 THEN Step([S2 EXCEPT !.im = clearMovementKeys(@)], "clearMovementKeys")
                 ELSE S2
        S4    == [S3 EXCEPT !.eng.previousPhase = phase]
        S5    == Step([S4 EXCEPT !.ext.playerInput = emptyInput], "player.update(empty)")
    IN  IF S4.eng.isPaused
        THEN Step([S5 EXCEPT !.reg = entityUpdate(@)], "entityManager.update")
        ELSE IF phase = "gameOver"
        THEN engWaveUpdate(Step([S4 EXCEPT !.reg = entityUpdate(@)],
                                "entityManager.update"), dt)
        ELSE IF phase = "levelUp"
        THEN engWaveUpdate(Step([S5 EXCEPT !.reg = entityUpdate(@)],
                                "entityManager.update"), dt)
        ELSE updatePlaying(S4, dt, c)

\* GameEngine.spawnDebugBoss(bossType)
spawnDebugBoss(S, bossType) ==
    LET id == newBossId(S.reg)
        b  == [kind |-> "boss", type |-> bossType, wave |-> S.wm.currentWave]
    IN  [S EXCEPT !.reg = appendBoss(createBoss(@, b, TRUE), id),
                  !.eng.isBossActive = TRUE,
                  !.eng.currentBoss = id]

\* GameEngine.resetGame, the reset callback of setupInputHandlers; the timers of
\* handlePlayerDeath that are pending are left to run
resetGame(S) ==
    [S EXCEPT !.reg = NewRegistry,
              !.wm = reset(@),
              !.eng.currentBoss = 0,
              !.eng.isBossActive = FALSE,
              !.eng.saveDue = TRUE,
              !.ext.resets = @ + 1,
              !.ext.staleTimers = Len(S.ext.timers)]

\* handleStart of setupInputHandlers
handleStart(S) == IF S.gs.phase = "ready" THEN [S EXCEPT !.gs = storeStart(@)] ELSE S

\* handleRestart of setupInputHandlers, for the key r
handleRestart(S) ==
    IF S.gs.phase = "gameOver" \/ S.gs.phase = "playing"
    THEN resetGame([S EXCEPT !.gs = storeRestart(@)])
    ELSE S

\* handleWindowBlur of setupInputHandlers
handleWindowBlur(S) ==
    IF S.gs.phase = "playing" THEN [S EXCEPT !.gs = storePause(@)] ELSE S

\* a keydown event runs the document's keydown listeners in the order they were
\* added: InputManager.handleKeyDown, handleStart, handleRestart (sound is left out)
keydownListeners(S, code) ==
    LET S1 == handleStart([S EXCEPT !.im = handleKeyDown(@, code)])
    IN  IF code = "KeyR" THEN handleRestart(S1) ELSE S1

\* ---- the state of the orchestrated game as one record, and back
Whole == [gs |-> gs, im |-> im, gsm |-> gsm, eng |-> eng, reg |-> reg, ext |-> ext,
          wm |-> wm, trace |-> trace]

Becomes(S) ==
    /\ gs' = S.gs
    /\ im' = S.im
    /\ gsm' = S.gsm
    /\ eng' = S.eng
    /\ reg' = S.reg
    /\ ext' = S.ext
    /\ wm' = S.wm
    /\ trace' = S.trace
    /\ UNCHANGED <<loopVars, wmOp, wmCount, wmEnemies, wmWarned, hBossSpawned,
                   hDefeatSince, hLateCall, wmBossCb, hWarnings, hBossReturned,
                   hCleared>>

\* wall-clock time `elapsed` passes: the timers run down
Passes(S, elapsed) ==
    [S EXCEPT !.ext.timers = [i \in 1..Len(@) |-> @[i] - elapsed]]

\* what the collisions of one frame may do, given the state before the frame:
\* damage up to the player's health, and a level reached, where the player takes
\* part; the death of any boss alive
Collisions(withPlayer) ==
    [damage : IF withPlayer THEN 0..gs.health ELSE {0},
     kills : 0..(reg.nRegular + 1),
     bossKills : SUBSET {i \in 1..Len(reg.bosses) : reg.bosses[i].alive},
     levelUp : IF withPlayer THEN BOOLEAN ELSE {FALSE}]

\* history of the frame that took S0 to S1: the phase the frame ran in (the phase
\* once the pause input is handled) and what the frame found, the movement
\* keys held down while the phase is "paused", and of the frames run while the
\* pause key is held: how many (up to 2), how often they paused or resumed,
\* whether the first of them followed a frame that saw the key up, and its phase
FrameHistory(S0, S1) ==
    [S1 EXCEPT !.ext.frame =
                   [phase   |-> handlePauseInput(S0, getInput(S0.im, FALSE)).gs.phase,
                    wm      |-> S0.wm,
                    im      |-> S0.im,
                    saveDue |-> S0.eng.saveDue,
                    boss    |-> S0.eng.currentBoss],
               !.ext.stale = IF S1.gs.phase = "paused"
                             THEN @ \cup (S1.ext.held \cap MovementKeys) ELSE @,
               !.ext.last = [kind |-> "frame", code |-> "", phase |-> S0.gs.phase,
                             resets |-> S0.ext.resets],
               !.ext.press =
                   IF "Escape" \notin S0.ext.held THEN @
                   ELSE [frames  |-> Min(@.frames + 1, 2),
                         toggles |-> IF {"pause", "resume"} \cap Range(S1.trace) # {}
                                     THEN Min(@.toggles + 1, 2) ELSE @.toggles,
                         edge    |-> IF @.frames = 0 THEN ~S0.gsm.lastPauseState ELSE @.edge,
                         phase   |-> IF @.frames = 0 THEN S0.gs.phase ELSE @.phase]]

NoPress == [frames |-> 0, toggles |-> 0, edge |-> FALSE, phase |-> "none"]

\* an event between two frames; the history keeps its kind, and the phase and
\* the number of resets it found
Event(S, kind, code) ==
    Becomes([S EXCEPT !.trace = <<>>,
                      !.ext.last = [kind |-> kind, code |-> code, phase |-> gs.phase,
                                    resets |-> ext.resets],
                      !.ext.press = IF code = "Escape" THEN NoPress ELSE @])

\* The host runs the frame request `gap` after the previous frame: gameLoop calls
\* GameEngine.update with the clamped deltaTime, then render.  A timer that is
\* due earlier runs first.
Frame(gap, c, horizon, maxRegular) ==
    /\ wm.waveStartTime < horizon
    /\ ext.recordRun < MaxRecorded
    /\ \A i \in 1..Len(ext.timers) : ext.timers[i] >= gap
    /\ LET S0 == [Passes(Whole, gap) EXCEPT !.trace = <<>>]
           S1 == Step(engineUpdate(S0, ClampDelta(gap), c), "render")
       IN  /\ S1.reg.nRegular \in 0..maxRegular
           /\ Becomes(FrameHistory(S0, S1))

\* the oldest timer of handlePlayerDeath runs: gameState.end()
TimerFires ==
    /\ ext.timers # <<>>
    /\ LET S0 == Passes(Whole, Max(0, ext.timers[1]))
       IN  Event([S0 EXCEPT !.ext.timers = Tail(@), !.gs = storeEnd(@),
                            !.ext.staleTimers = Max(0, @ - 1),
                            !.ext.staleEnded =
                                @ \/ (ext.staleTimers > 0 /\ storeEnd(gs) # gs)],
                 "timer", "")

\* the key goes down: the keydown event
KeyDown(code) ==
    /\ code \notin ext.held
    /\ Event(keydownListeners(
                 [Whole EXCEPT !.ext.held = @ \cup {code},
                               !.ext.stale = IF gs.phase = "paused"
                                             THEN @ \cup ({code} \cap MovementKeys)
                                             ELSE @],
                 code),
             "keydown", code)

\* the key stays down: the host repeats the keydown event
KeyRepeat(code) ==
    /\ code \in ext.held
    /\ Event(keydownListeners(Whole, code), "repeat", "")

\* the key goes up: the keyup event
KeyUp(code) ==
    /\ code \in ext.held
    /\ Event([Whole EXCEPT !.im = handleKeyUp(@, code),
                           !.ext.held = @ \ {code},
                           !.ext.stale = @ \ {code}],
             "keyup", code)

\* ---- the InputManager driven directly: one call of a method, any order
InputCall(m, call) == Becomes([Whole EXCEPT !.im = m, !.trace = call])

InputKeyDown(code) == InputCall(handleKeyDown(im, code), <<"handleKeyDown", code>>)

InputKeyUp(code) == InputCall(handleKeyUp(im, code), <<"handleKeyUp", code>>)

InputSetPaused(paused) ==
    InputCall(setPaused(im, paused), <<"setPaused", IF paused THEN "true" ELSE "false">>)

InputClearMovementKeys == InputCall(clearMovementKeys(im), <<"clearMovementKeys">>)

\* a click outside a button: handleStart runs
StartClick == Event(handleStart(Whole), "click", "")

\* a click outside a button on the start screen
StartInput ==
    /\ gs.phase = "ready"
    /\ StartClick

\* the window loses the focus: handleWindowBlur runs
WindowBlur == Event(handleWindowBlur(Whole), "blur", "")

\* the key r goes down
RestartKeyDown ==
    /\ ext.resets < MaxResets
    /\ KeyDown("KeyR")

\* the upgrade screen closes: resumeFromLevelUp()
LevelUpChosen ==
    /\ gs.phase = "levelUp"
    /\ Event([Whole EXCEPT !.gs = storeResumeFromLevelUp(@)], "choice", "")

\* STATS_SAVE_INTERVAL passes since the engine's (who = "eng") or the
\* GameStateManager's (who = "gsm") lastStatsSaveTime
SaveIntervalPasses(who) ==
    /\ IF who = "eng" THEN ~eng.saveDue ELSE ~gsm.saveDue
    /\ Event(IF who = "eng" THEN [Whole EXCEPT !.eng.saveDue = TRUE]
             ELSE [Whole EXCEPT !.gsm.saveDue = TRUE],
             "clock", "")

\* the debug panel's "Summon .." buttons
DebugBoss(bossType) ==
    /\ Len(reg.bosses) < MaxDebugBosses
    /\ Event(spawnDebugBoss(Whole, bossType), "debug", "")

\* the collaborators and the history before the first frame
NewExt ==
    [recordRun |-> 0, recordRunEnd |-> 0, addCurrency |-> 0,
     snapshot |-> FALSE, timers |-> <<>>, bossDefeats |-> 0, defeated |-> {},
     held |-> {}, stale |-> {}, playerInput |-> emptyInput,
     \* the boss type of the latest warning, and of the boss spawned since
     announced |-> "none", spawnedType |-> "none",
     \* the resets run, the pending timers of earlier runs and whether one of
     \* them ended a run; the last event; the frames since the pause key went down
     resets |-> 0, staleTimers |-> 0, staleEnded |-> FALSE,
     last |-> [kind |-> "none", code |-> "", phase |-> "ready", resets |-> 0],
     press |-> NoPress,
     frame |-> [phase |-> "ready", wm |-> NewWaveManager, im |-> NewInputManager,
                saveDue |-> TRUE, boss |-> 0]]

InitEngine ==
    /\ gs = [phase |-> "ready", health |-> MaxHealth]
    /\ im = NewInputManager
    /\ gsm = [lastPauseState |-> FALSE, saveDue |-> TRUE]
    /\ eng = [isPaused |-> FALSE, previousPhase |-> "ready", currentBoss |-> 0,
              isBossActive |-> FALSE, saveDue |-> TRUE]
    /\ reg = NewRegistry
    /\ ext = NewExt
    /\ trace = <<>>

InitWave ==
    /\ wm = NewWaveManager
    /\ wmOp = "new"
    /\ wmCount = 0
    /\ wmEnemies = <<>>
    /\ wmWarned = FALSE
    /\ hBossSpawned = FALSE
    /\ hDefeatSince = FALSE
    /\ hLateCall = FALSE
    /\ wmBossCb = FALSE
    /\ hWarnings = 0
    /\ hBossReturned = 0
    /\ hCleared = FALSE

InitLoop ==
    /\ animationFrameId = 0
    /\ lastTime = 0
    /\ rafPending = {}
    /\ stopped = FALSE
    /\ lastDelta = 0
    /\ frameLog = <<>>
    /\ framesAfterStop = 0

Init == InitLoop /\ InitWave /\ InitEngine

NextLoop ==
    \/ Start
    \/ Stop
    \/ \E id \in rafPending, t \in HostStamps, su \in BOOLEAN, sr \in BOOLEAN :
          GameLoop(id, t, su, sr)

SpecLoop == Init /\ [][NextLoop]_vars

\* ---- the controller with callbacks that may throw
NextFail ==
    \/ NextLoop
    \/ \E id \in rafPending, t \in HostStamps : GameLoopThrows(id, t)

SpecFail == Init /\ [][NextFail]_vars

NextWave ==
    \/ \E dt \in WaveDeltas : WaveUpdate(dt)
    \/ \E count \in WaveCounts(wm) : WaveSpawnEnemies(count)
    \/ WaveOnBossDefeated
    \/ WaveReset

SpecWave == Init /\ [][NextWave]_vars

\* ---- the WaveManager late in a run: it has advanced into wave k, and update
\* was called with t elapsed
RECURSIVE WaveAt(_)
WaveAt(k) == IF k <= 1 THEN NewWaveManager ELSE advanceWave(WaveAt(k - 1))

LateElapsed == {0, bossWarningTime, waveDuration}

InitLate ==
    /\ InitLoop
    /\ InitEngine
    /\ \E k \in 1..MaxLateWave, t \in LateElapsed :
          LET r == update(WaveAt(k), t)
          IN  /\ wm = r.wm
              /\ wmWarned = r.warning
              /\ hWarnings = IF r.warning THEN 1 ELSE 0
    /\ wmOp = "update"
    /\ wmCount = 0
    /\ wmEnemies = <<>>
    /\ hBossSpawned = FALSE
    /\ hDefeatSince = FALSE
    /\ hLateCall = FALSE
    /\ wmBossCb = FALSE
    /\ hBossReturned = 0
    /\ hCleared = FALSE

NextLate ==
    \/ \E count \in WaveCounts(wm) : WaveSpawnEnemies(count)
    \/ WaveOnBossDefeated

SpecLate == InitLate /\ [][NextLate]_vars

\* ---- the orchestrated game: player, keyboard, upgrade screen
Next ==
    \/ \E c \in Collisions(TRUE) : Frame(FrameGap, c, ShortHorizon, MaxRegular)
    \/ TimerFires
    \/ \E code \in KeyCodes : KeyDown(code)
    \/ \E code \in KeyCodes : KeyUp(code)
    \/ StartInput
    \/ LevelUpChosen
    \/ \E who \in {"eng", "gsm"} : SaveIntervalPasses(who)

Spec == Init /\ [][Next]_vars

\* ---- the orchestrated game with the debug panel
NextDebug ==
    \/ \E c \in Collisions(FALSE) : Frame(FrameGap, c, ShortHorizon, MaxRegular)
    \/ StartInput
    \/ \E i \in 1..Len(bossTypes) : DebugBoss(bossTypes[i])

SpecDebug == Init /\ [][NextDebug]_vars

\* ---- the orchestrated game run through the waves: the collisions kill every
\* regular enemy in the frame it appears
NextBoss ==
    \/ \E c \in Collisions(FALSE) : Frame(FrameGap, c, LongHorizon, 0)
    \/ StartInput

SpecBoss == Init /\ [][NextBoss]_vars

\* ---- the orchestrated game with a movement key and the pause key
WatchedKeys == {"Escape", "KeyW"}

NextKeys ==
    \/ \E c \in Collisions(FALSE) : Frame(FrameGap, c, KeysHorizon, MaxRegular)
    \/ \E code \in WatchedKeys : KeyDown(code)
    \/ \E code \in WatchedKeys : KeyRepeat(code)
    \/ \E code \in WatchedKeys : KeyUp(code)
    \/ StartInput

SpecKeys == Init /\ [][NextKeys]_vars

\* ---- the orchestrated game with the inputs that change the phase: the pause
\* key, the restart key, clicks and the window's focus
NextPhase ==
    \/ \E c \in Collisions(FALSE) : Frame(FrameGap, c, KeysHorizon, MaxRegular)
    \/ KeyDown("Escape")
    \/ RestartKeyDown
    \/ \E code \in {"Escape", "KeyR"} : KeyUp(code)
    \/ StartClick
    \/ WindowBlur

SpecPhase == Init /\ [][NextPhase]_vars

\* ---- the orchestrated game with the restart key; the collisions only hurt
\* the player
RestartCollisions == {c \in Collisions(TRUE) : c.kills = 0 /\ ~c.levelUp}

NextRestart ==
    \/ \E c \in RestartCollisions : Frame(FrameGap, c, ShortHorizon, MaxRegular)
    \/ TimerFires
    \/ RestartKeyDown
    \/ KeyUp("KeyR")
    \/ StartInput

SpecRestart == Init /\ [][NextRestart]_vars

\* ---- the orchestrated game late in a run: the WaveManager has advanced into
\* wave k, every enemy of the earlier waves is gone and the phase is "playing"
InitLateEngine ==
    /\ InitLoop
    /\ \E k \in 1..MaxLateWave : wm = WaveAt(k)
    /\ wmOp = "new"
    /\ wmCount = 0
    /\ wmEnemies = <<>>
    /\ wmWarned = FALSE
    /\ hBossSpawned = FALSE
    /\ hDefeatSince = FALSE
    /\ hLateCall = FALSE
    /\ wmBossCb = FALSE
    /\ hWarnings = 0
    /\ hBossReturned = 0
    /\ hCleared = FALSE
    /\ gs = [phase |-> "playing", health |-> MaxHealth]
    /\ im = NewInputManager
    /\ gsm = [lastPauseState |-> FALSE, saveDue |-> FALSE]
    /\ eng = [isPaused |-> FALSE, previousPhase |-> "playing", currentBoss |-> 0,
              isBossActive |-> FALSE, saveDue |-> FALSE]
    /\ reg = NewRegistry
    /\ ext = NewExt
    /\ trace = <<>>

NextLateEngine ==
    \E c \in Collisions(FALSE) : Frame(FrameGap, c, WarnHorizon, 0)

SpecLateEngine == InitLateEngine /\ [][NextLateEngine]_vars

\* ---- the InputManager alone
InputKeys == {"Escape", "KeyW", "ArrowUp"}

NextInput ==
    \/ \E code \in InputKeys : InputKeyDown(code)
    \/ \E code \in InputKeys : InputKeyUp(code)
    \/ \E paused \in BOOLEAN : InputSetPaused(paused)
    \/ InputClearMovementKeys

SpecInput == Init /\ [][NextInput]_vars

(***************************************************************************)
(* The claims.                                                              *)
(***************************************************************************)

\* C1: in a run, once the player's death is processed, StatisticsSystem.recordRun,
\* PersistentProgressionSystem.recordRunEnd and addCurrency have each been called
\* exactly once, however many frames find health <= 0 while the phase still is
\* "playing" (checked under Spec).
C1_DeathEffectsOnce ==
    ext.recordRun > 0 =>
        /\ ext.recordRun = 1
        /\ ext.recordRunEnd = 1
        /\ ext.addCurrency = 1

\* C2: once the engine has processed the defeat of the boss of a boss wave, a
\* frame in phase "playing" that calls spawnEnemies with waveDuration elapsed
\* leaves that wave: it never ends still in the boss wave with
\* waveStartTime >= waveDuration (checked under SpecBoss).
C2_LeavesBossWave ==
    \A id \in ext.defeated :
        (/\ ~reg.bosses[id].debug
         /\ gs.phase = "playing"
         /\ "spawnEnemies" \in Range(trace))
        => ~(wm.currentWave = reg.bosses[id].wave /\ wm.waveStartTime >= waveDuration)

\* C3: the deltaTime of every gameLoop call is within 0 .. 0.02 s, whatever the
\* timestamps of the host and the start/stop calls before it (checked under SpecLoop).
C3_DeltaInRange == 0 <= lastDelta /\ lastDelta <= MaxDeltaTime

\* C4: after stop(), also when called from inside a callback, and until start(),
\* no frame request is pending and no gameLoop call is made (checked under SpecLoop).
C4_StopHalts == stopped => (rafPending = {} /\ framesAfterStop = 0)

\* C5: at most one frame request is pending at any time, also after start() was
\* called repeatedly (checked under SpecLoop).
C5_SingleRequest == Cardinality(rafPending) <= 1

\* C6: every gameLoop call invokes update once, then render once with the same
\* deltaTime, and only then requests the next frame, whatever the callbacks do
\* (checked under SpecLoop).
C6_UpdateThenRender ==
    frameLog # <<>> =>
        LET calls == SelectSeq(frameLog, LAMBDA e : e.op \in {"update", "render", "request"})
        IN  /\ Len(calls) = 3
            /\ calls[1] = [op |-> "update", dt |-> lastDelta]
            /\ calls[2] = [op |-> "render", dt |-> lastDelta]
            /\ calls[3].op = "request"
            /\ frameLog[1].op = "update"
            /\ frameLog[Len(frameLog)].op = "request"

\* a frame whose update callback called stop() and returned, and render followed
C6_Witness ==
    /\ Len(frameLog) = 4
    /\ frameLog[2].op = "stop"
    /\ frameLog[3].op = "render"
    /\ lastDelta = MaxDeltaTime

\* C7: without reset(), no WaveManager operation lowers the wave number, and a
\* spawnEnemies call leaves it or raises it by exactly 1, however much time has
\* elapsed in the wave (checked under SpecWave).
C7_WaveStepsByOne ==
    [][wmOp' # "reset" =>
          /\ wm'.currentWave >= wm.currentWave
          /\ wmOp' = "spawnEnemies" => wm'.currentWave - wm.currentWave \in {0, 1}]_vars

\* a spawnEnemies call that began with two wave durations elapsed and advanced
C7_Witness ==
    /\ wmOp = "spawnEnemies"
    /\ hLateCall
    /\ wm.currentWave = 2
    /\ wm.waveStartTime = 0

\* C8 as stated: for a spawnEnemies call with currentEnemyCount within the cap of
\* the wave current after the call, the count plus all the enemies returned, boss
\* included, is within that cap (checked under SpecWave).
C8_CapCountsBoss ==
    (wmOp = "spawnEnemies" /\ wmCount <= wm.maxActiveEnemies)
    => wmCount + Len(wmEnemies) <= wm.maxActiveEnemies

NumRegular(enemies) == Cardinality({i \in 1..Len(enemies) : enemies[i].kind = "regular"})

\* C8 as amended: for such a call the count plus the regular enemies returned is
\* within the cap; the boss is returned whatever the count, so the total exceeds
\* the cap by at most the one boss (checked under SpecWave).
C8_CapRegular ==
    (wmOp = "spawnEnemies" /\ wmCount <= wm.maxActiveEnemies)
    => /\ wmCount + NumRegular(wmEnemies) <= wm.maxActiveEnemies
       /\ wmCount + Len(wmEnemies) <= wm.maxActiveEnemies + 1
       /\ Len(wmEnemies) - NumRegular(wmEnemies) <= 1

\* a regular enemy spawned into the last free place under the cap
C8_Witness ==
    /\ wmOp = "spawnEnemies"
    /\ NumRegular(wmEnemies) = 1
    /\ wmCount + 1 = wm.maxActiveEnemies

\* C9: the enemy list of the EntityManager holds at most one boss entity at any
\* time (checked under SpecDebug).
C9_OneBoss == Cardinality(bossesInRegistry(reg)) <= 1

\* C10: isBossActive() is true only if a boss was spawned in the current wave and
\* onBossDefeated() was not called since, nor the wave advanced; it is false
\* before the spawn, after the defeat and on every wave that is no boss wave
\* (checked under SpecWave).
C10_BossActiveOnlyAfterSpawn ==
    /\ isBossActive(wm) => (hBossSpawned /\ ~hDefeatSince /\ isBossWave(wm))
    /\ ~hBossSpawned => ~isBossActive(wm)
    /\ hDefeatSince => ~isBossActive(wm)
    /\ ~isBossWave(wm) => ~isBossActive(wm)

\* the boss of a boss wave is spawned and not defeated ...
C10_Witness ==
    /\ isBossActive(wm)
    /\ hBossSpawned
    /\ wm.waveStartTime > bossWarningTime

\* C11: in every state of the WaveManager, after any sequence of update,
\* spawnEnemies, onBossDefeated and reset, bossSpawned implies that the current
\* wave is a boss wave (checked under SpecWave).
C11_SpawnedOnlyInBossWave == wm.bossSpawned => isBossWave(wm)

\* the boss of wave 5 was spawned and defeated, and the wave is still 5
C11_Witness ==
    /\ wm.bossSpawned
    /\ wm.bossDefeated
    /\ wm.currentWave = bossSpawnInterval

\* C12: onBossWarning is called at most once in a wave and never in a wave that
\* is no boss wave; it has been called exactly once when onBossSpawn is called
\* and when a boss wave is left (checked under SpecWave).
C12_WarningOncePerBossWave ==
    /\ [](/\ hWarnings <= 1
          /\ ~isBossWave(wm) => hWarnings = 0
          /\ hBossReturned > 0 => hWarnings = 1)
    /\ [][/\ wmWarned' => (isBossWave(wm') /\ hWarnings = 0 /\ hBossReturned = 0)
          /\ wmBossCb' => hWarnings = 1
          /\ (isBossWave(wm) /\ wm'.currentWave > wm.currentWave) => hWarnings = 1]_vars

\* the boss-spawn callback of a wave fires after the one warning of that wave
C12_Witness ==
    /\ wmOp = "spawnEnemies"
    /\ wmBossCb
    /\ hWarnings = 1
    /\ isBossWave(wm)

\* C13: in a boss wave spawnEnemies returns a boss on the first call made with
\* bossWarningTime (5 s) elapsed in the wave and on no other call of that wave,
\* also after the defeat; the call that returns it calls onBossSpawn once and
\* sets bossSpawned (checked under SpecWave).
C13_BossOncePerWave ==
    /\ [](/\ hBossReturned <= 1
          /\ wm.bossSpawned <=> hBossReturned = 1
          /\ hBossReturned = 1 => isBossWave(wm))
    /\ [][wmOp' = "spawnEnemies" =>
            /\ NumBoss(wmEnemies') =
                  (IF /\ isBossWave(wm)
                      /\ hBossReturned = 0
                      /\ wm.waveStartTime >= bossWarningTime
                   THEN 1 ELSE 0)
            /\ wmBossCb' <=> NumBoss(wmEnemies') = 1
            /\ (NumBoss(wmEnemies') = 1 /\ wm'.currentWave = wm.currentWave)
                  => wm'.bossSpawned]_vars

\* a call after the defeat of the boss, before the wave is over, returned nothing
C13_Witness ==
    /\ wmOp = "spawnEnemies"
    /\ hBossReturned = 1
    /\ hCleared
    /\ wm.currentWave = bossSpawnInterval
    /\ wmEnemies = <<>>

\* C15: every regular enemy spawnEnemies returns was created for a wave that is
\* no boss wave, also in the call in which the wave number advances
\* (checked under SpecWave).
C15_NoRegularInBossWave ==
    \A i \in 1..Len(wmEnemies) :
        wmEnemies[i].kind = "regular" => wmEnemies[i].wave % bossSpawnInterval # 0

\* C16: a spawnEnemies call made while isBossActive() holds returns the empty
\* list and leaves the wave number as it is, whatever the time elapsed in the
\* wave and the enemy count (checked under SpecWave).
C16_FrozenDuringBossFight ==
    [][(isBossActive(wm) /\ wmOp' = "spawnEnemies") =>
          (wmEnemies' = <<>> /\ wm'.currentWave = wm.currentWave)]_vars

\* a call with the boss active, waveDuration elapsed and no enemy alive
C16_Witness ==
    /\ wmOp = "spawnEnemies"
    /\ isBossActive(wm)
    /\ ~wmBossCb
    /\ wm.waveStartTime >= waveDuration
    /\ wmCount = 0
    /\ wmEnemies = <<>>

C18_OneEnemyPerCall ==
    [][(wmOp' = "spawnEnemies" /\ ~isBossWave(wm)) =>
          IF /\ wm.spawnTimer >= wm'.spawnInterval
             /\ wmCount' < wm'.maxActiveEnemies
          THEN /\ Len(wmEnemies') = 1
               /\ wmEnemies'[1].kind = "regular"
               /\ wm'.spawnTimer = 0
          ELSE /\ wmEnemies' = <<>>
               /\ wm'.spawnTimer = wm.spawnTimer]_vars

\* an enemy spawned in wave 2 with no enemy alive, and the cooldown back at 0
C18_Witness ==
    /\ wmOp = "spawnEnemies"
    /\ wm.currentWave = 2
    /\ wmCount = 0
    /\ Len(wmEnemies) = 1
    /\ wm.spawnTimer = 0
    /\ wm.waveStartTime > 0

\* C20: reset() leaves every field as the initialisers do, from any state, and
\* reset() after reset() changes nothing (checked under SpecWave).
C20_ResetIsFresh ==
    /\ reset(wm) = NewWaveManager
    /\ reset(reset(wm)) = reset(wm)
    /\ wmOp = "reset" => wm = NewWaveManager

\* reset() called in a later wave
C20_Witness ==
    /\ wmOp = "reset"
    /\ hLateCall
    /\ wm = NewWaveManager

\* the round-robin of the boss types, counted from the first boss wave
ExpectedBossType(w) ==
    CASE (w \div 5) % 3 = 1 -> "necromancer"
      [] (w \div 5) % 3 = 2 -> "vampire_lord"
      [] OTHER -> "ancient_golem"

\* C14: the boss spawned in boss wave w has the type bossTypes[floor(w/5 - 1) mod 3],
\* a function of the wave number only: necromancer in wave 5, vampire_lord in 10,
\* ancient_golem in 15, necromancer again in 20 (checked under SpecLate).
C14_BossTypeRoundRobin ==
    /\ \A i \in 1..Len(wmEnemies) :
          wmEnemies[i].kind = "boss" =>
              /\ wmEnemies[i].wave % 5 = 0
              /\ wmEnemies[i].type = ExpectedBossType(wmEnemies[i].wave)
    /\ \A w \in 1..MaxLateWave :
          w % 5 = 0 => spawnBoss([wm EXCEPT !.currentWave = w]).type = ExpectedBossType(w)
    /\ spawnBoss([wm EXCEPT !.currentWave = 5]).type = "necromancer"
    /\ spawnBoss([wm EXCEPT !.currentWave = 10]).type = "vampire_lord"
    /\ spawnBoss([wm EXCEPT !.currentWave = 15]).type = "ancient_golem"
    /\ spawnBoss([wm EXCEPT !.currentWave = 20]).type = "necromancer"

\* the boss of wave 20, the first of the second round
C14_Witness ==
    /\ wmOp = "spawnEnemies"
    /\ wmBossCb
    /\ wmEnemies = <<[kind |-> "boss", type |-> "necromancer", wave |-> 20]>>

\* C19: 1 s <= spawnInterval <= 2 s and 25 <= maxActiveEnemies <= 80 in every
\* state; a wave advance does not raise spawnInterval nor lower maxActiveEnemies,
\* sets the time elapsed in the wave to 0 and clears bossSpawned, bossDefeated
\* and bossWarningTriggered (checked under SpecLate).
C19_DecayAndCap ==
    /\ [](/\ 1000000 <= wm.spawnInterval /\ wm.spawnInterval <= 2000000
          /\ 25 <= wm.maxActiveEnemies /\ wm.maxActiveEnemies <= 80)
    /\ [][wm'.currentWave = wm.currentWave + 1 =>
            /\ wm'.spawnInterval <= wm.spawnInterval
            /\ wm'.maxActiveEnemies >= wm.maxActiveEnemies
            /\ wm'.waveStartTime = 0
            /\ ~wm'.bossSpawned
            /\ ~wm'.bossDefeated
            /\ ~wm'.bossWarningTriggered]_vars

\* an advance with spawnInterval at its floor and maxActiveEnemies at its cap
C19_Witness ==
    /\ wmOp = "spawnEnemies"
    /\ wm.waveStartTime = 0
    /\ wm.currentWave > 24
    /\ wm.spawnInterval = 1000000
    /\ wm.maxActiveEnemies = maxEnemiesCap

\* C21: a frame that runs while the phase is "paused", the frame that handles the
\* pause input included, leaves every field of the WaveManager as it was and
\* updates the player with the all-false input, whatever keys are down
\* (checked under SpecKeys).
C21_PausedFrameFreezes ==
    (trace # <<>> /\ ext.frame.phase = "paused") =>
        /\ wm = ext.frame.wm
        /\ ext.playerInput = emptyInput
        /\ "player.update(empty)" \in Range(trace)
        /\ "player.update" \notin Range(trace)
        /\ "spawnEnemies" \notin Range(trace)

\* the frame that handled the pause input, with the movement key down
C21_Witness ==
    /\ ext.frame.phase = "paused"
    /\ "pause" \in Range(trace)
    /\ "KeyW" \in ext.held
    /\ "KeyW" \in im.keys
    /\ wm.waveStartTime > 0

\* C22: in a frame that runs in phase "playing", the input the player is updated
\* with reads false for every movement key that was down during a pause and has
\* not been released since, whatever keydown, key-repeat and keyup events came
\* between the frames (checked under SpecKeys).
C22_HeldKeysStayCleared ==
    (trace # <<>> /\ ext.frame.phase = "playing" /\ "player.update" \in Range(trace)) =>
        ("KeyW" \in ext.stale => ~ext.playerInput.up)

\* the calls of a frame among those named, in the order made
StepsAmong(names) == SelectSeq(trace, LAMBDA n : n \in names)

\* C23 as stated: a frame that runs while the phase is "levelUp" leaves the time
\* elapsed in the wave as it was (checked under Spec).
C23_LevelUpFreezesWave ==
    (trace # <<>> /\ ext.frame.phase = "levelUp") =>
        wm.waveStartTime = ext.frame.wm.waveStartTime

\* C23 as amended: a frame that runs while the phase is "levelUp" still calls
\* WaveManager.update(deltaTime): the time elapsed in the wave and the spawn
\* cooldown advance by deltaTime; spawnEnemies is not called, so the wave number
\* stays and no enemy is spawned (checked under Spec).
C23_LevelUpWaveRuns ==
    (trace # <<>> /\ ext.frame.phase = "levelUp") =>
        /\ wm.waveStartTime = ext.frame.wm.waveStartTime + ClampDelta(FrameGap)
        /\ wm.spawnTimer = ext.frame.wm.spawnTimer + ClampDelta(FrameGap)
        /\ wm.currentWave = ext.frame.wm.currentWave
        /\ "spawnEnemies" \notin Range(trace)
        /\ ext.playerInput = emptyInput

\* a frame ran with the upgrade screen open
C23_Witness ==
    /\ trace # <<>>
    /\ gs.phase = "levelUp"
    /\ ext.frame.phase = "levelUp"
    /\ wm.waveStartTime > ext.frame.wm.waveStartTime

\* C24: a callback that throws during a frame does not end the loop: render is
\* still called in that frame and the next frame is requested
\* (checked under SpecFail).
C24_FailureStaysInFrame ==
    frameLog # <<>> =>
        /\ \E i \in 1..Len(frameLog) : frameLog[i].op = "render"
        /\ frameLog[Len(frameLog)].op = "request"
        /\ ~stopped => rafPending # {}

FrameSteps ==
    {"getInput", "handlePauseInput", "waveManager.update", "spawnEnemies",
     "entityManager.update", "handleAllCollisions", "gameStateManager.update", "render"}

\* C25 as stated: a frame in phase "playing" with the player alive samples the
\* input, handles the pause input, updates the WaveManager, calls spawnEnemies,
\* updates the entities, resolves the collisions and updates the GameStateManager,
\* each once and in this order, and render follows (checked under Spec).
C25_StepsOnceInOrder ==
    (trace # <<>> /\ ext.frame.phase = "playing"
        /\ "handlePlayerDeath" \notin Range(trace)) =>
        StepsAmong(FrameSteps) =
            <<"getInput", "handlePauseInput", "waveManager.update", "spawnEnemies",
              "entityManager.update", "handleAllCollisions", "gameStateManager.update",
              "render">>

\* C25 as amended: such a frame samples the input twice, before the pause
\* handling and again for the player update after it; the other steps are made
\* once each, in the order stated, and render follows (checked under Spec).
C25_StepsInOrderInputTwice ==
    (trace # <<>> /\ ext.frame.phase = "playing"
        /\ "handlePlayerDeath" \notin Range(trace)) =>
        /\ StepsAmong(FrameSteps \cup {"player.update"}) =
              <<"getInput", "handlePauseInput", "getInput", "player.update",
                "waveManager.update", "spawnEnemies", "entityManager.update",
                "handleAllCollisions", "gameStateManager.update", "render">>
        /\ trace[Len(trace)] = "render"

\* a whole frame in phase "playing" that spawned the first enemy
C25_Witness ==
    /\ ext.frame.phase = "playing"
    /\ gs.health > 0
    /\ "handleAllCollisions" \in Range(trace)
    /\ reg.nRegular > 0
    /\ trace[Len(trace)] = "render"

\* C26: a death caused by the collisions of a frame is processed in that frame:
\* a frame that resolved collisions and ends with health <= 0 in phase "playing"
\* has called handlePlayerDeath (checked under Spec).
C26_DeathInSameFrame ==
    (/\ trace # <<>>
     /\ "handleAllCollisions" \in Range(trace)
     /\ gs.phase = "playing"
     /\ gs.health <= 0)
    => "handlePlayerDeath" \in Range(trace)

\* C27: the effects of a boss defeat are applied once per boss: only in a frame
\* that began with a tracked boss, which is dead, and the frame clears the
\* tracked reference and the active mark; later frames do not apply them again,
\* and a frame with no tracked boss applies nothing (checked under SpecDebug).
C27_DefeatOncePerBoss ==
    /\ ext.bossDefeats = Cardinality(ext.defeated)
    /\ \A id \in ext.defeated : ~reg.bosses[id].alive
    /\ (trace # <<>> /\ "handleBossDefeated" \in Range(trace)) =>
            /\ ext.frame.boss # 0
            /\ ext.frame.boss \in ext.defeated
            /\ eng.currentBoss = 0
            /\ ~eng.isBossActive
    /\ (trace # <<>> /\ ext.frame.boss = 0) => "handleBossDefeated" \notin Range(trace)

\* a later frame, with the defeated boss still dead and no boss tracked
C27_Witness ==
    /\ ext.bossDefeats = 1
    /\ trace # <<>>
    /\ ext.frame.boss = 0
    /\ "handleBossDefeated" \notin Range(trace)
    /\ \E id \in ext.defeated : ~reg.bosses[id].alive

\* C28: onBossDefeated() called with no boss active changes nothing: a boss
\* spawned in the current wave with no onBossDefeated() call since its spawn is
\* active (checked under SpecWave).
C28_EarlyDefeatIsNoOp == (hBossSpawned /\ ~hDefeatSince) => isBossActive(wm)

\* C29: in the frame whose pause input takes the phase from "playing" to
\* "paused", saveSessionSnapshot is called right before the phase changes
\* (checked under Spec).
C29_SnapshotBeforePause ==
    /\ \A i \in 1..Len(trace) :
          trace[i] = "pause" => (i > 1 /\ trace[i - 1] = "saveSessionSnapshot")
    /\ "pause" \in Range(trace) => (ext.snapshot /\ ext.frame.phase = "paused")

\* the frame that paused the game
C29_Witness ==
    /\ "pause" \in Range(trace)
    /\ gs.phase = "paused"
    /\ ext.snapshot
    /\ wm.waveStartTime > 0

\* C30 as stated: a frame that runs in phase "playing" or "paused" when the save
\* interval has passed since the last save saves a session snapshot
\* (checked under Spec).
C30_SavedInActivePhases ==
    (trace # <<>> /\ ext.frame.phase \in {"playing", "paused"} /\ ext.frame.saveDue)
    => "saveSessionSnapshot" \in Range(trace)

\* C30 as amended: a frame that runs in phase "playing" when the save interval
\* has passed since the engine's last save saves a session snapshot, so that
\* while frames run in "playing" the time between two saves is at most the
\* interval and one frame; frames in phase "paused" make no periodic save
\* (checked under Spec).
C30_SavedWhilePlaying ==
    (trace # <<>> /\ ext.frame.phase = "playing" /\ ext.frame.saveDue) =>
        /\ "saveSessionSnapshot" \in Range(trace)
        /\ ~eng.saveDue

\* the interval passed during play and the next frame saved
C30_Witness ==
    /\ trace # <<>>
    /\ ext.frame.phase = "playing"
    /\ ext.frame.saveDue
    /\ "saveSessionSnapshot" \in Range(trace)
    /\ ~eng.saveDue

\* C31: getInput(true) returns a snapshot with every field false whatever keys
\* are registered, and a frame that samples the input and does not call
\* clearMovementKeys leaves the key map and the ignore-until-release set as they
\* were (checked under SpecKeys).
C31_PausedSnapshotEmpty ==
    /\ \A f \in DOMAIN getInput(im, TRUE) : ~getInput(im, TRUE)[f]
    /\ (trace # <<>> /\ "getInput" \in Range(trace)
           /\ "clearMovementKeys" \notin Range(trace)) =>
            /\ im.keys = ext.frame.im.keys
            /\ im.ignoreUntilRelease = ext.frame.im.ignoreUntilRelease

\* a frame sampled the input with the pause key and a movement key registered
C31_Witness ==
    /\ trace # <<>>
    /\ "getInput" \in Range(trace)
    /\ "clearMovementKeys" \notin Range(trace)
    /\ {"KeyW", "Escape"} \subseteq im.keys
    /\ getInput(im, FALSE).up
    /\ getInput(im, FALSE).pause

\* C37: in every state of the InputManager a key in the ignore-until-release
\* set is recorded as not pressed, and a key leaves the set only by its keyup
\* event (checked under SpecInput).
C37_IgnoredKeysNotPressed ==
    /\ [](im.keys \cap im.ignoreUntilRelease = {})
    /\ [][\A code \in im.ignoreUntilRelease \ im'.ignoreUntilRelease :
             trace' = <<"handleKeyUp", code>>]_vars

\* a keydown of an ignored key was dropped while the game is not paused
C37_Witness ==
    /\ trace = <<"handleKeyDown", "KeyW">>
    /\ "KeyW" \in im.ignoreUntilRelease
    /\ "KeyW" \notin im.keys
    /\ "ArrowUp" \in im.keys
    /\ ~im.isPaused

\* C36: in every boss wave the boss type announced by
\* GameStateManager.handleBossWarning, computed from the wave number read when
\* the warning fires, is the type of the boss the WaveManager then spawns in that
\* wave (checked under SpecLateEngine).
C36_AnnouncedBossIsSpawned ==
    /\ ext.announced # "none" => ext.announced \in Range(bossTypes)
    /\ ext.spawnedType # "none" => ext.spawnedType = ext.announced
    /\ (trace # <<>> /\ ext.frame.boss = 0 /\ eng.currentBoss # 0) =>
          /\ isBossWave(wm)
          /\ ext.spawnedType = ExpectedBossType(wm.currentWave)

\* the third boss type was announced and spawned, in a wave past the first cycle
C36_Witness ==
    /\ wm.currentWave > 3 * bossSpawnInterval
    /\ ext.announced = "ancient_golem"
    /\ ext.spawnedType = "ancient_golem"
    /\ eng.currentBoss # 0
    /\ "handleBossWarning" \notin Range(trace)

\* C32: the inputs change the phase only from their source phases: a click
\* starts only from "ready", the pause input pauses only from "playing" and
\* resumes only from "paused", the window's blur pauses only from "playing", a
\* keydown of a key other than r acts as a start input only, and a keydown of
\* the key r runs the reset callback, once, only if the phase was "gameOver" or
\* "playing" when the key went down (checked under SpecPhase).
C32_TransitionsFromSourcePhases ==
    LET before  == ext.last.phase
        changed == gs.phase # before
        didReset == ext.resets # ext.last.resets
    IN  /\ ext.last.kind = "click" =>
              /\ ~didReset
              /\ changed => (before = "ready" /\ gs.phase = "playing")
        /\ ext.last.kind = "frame" =>
              /\ ~didReset
              /\ "pause" \in Range(trace) => (before = "playing" /\ gs.phase = "paused")
              /\ "resume" \in Range(trace) => (before = "paused" /\ gs.phase = "playing")
              /\ changed => {"pause", "resume"} \cap Range(trace) # {}
        /\ ext.last.kind = "blur" =>
              /\ ~didReset
              /\ changed => (before = "playing" /\ gs.phase = "paused")
        /\ (ext.last.kind = "keydown" /\ ext.last.code # "KeyR") =>
              /\ ~didReset
              /\ changed => (before = "ready" /\ gs.phase = "playing")
        /\ (ext.last.kind = "keydown" /\ ext.last.code = "KeyR") =>
              /\ didReset => (/\ before \in {"gameOver", "playing"}
                              /\ ext.resets = ext.last.resets + 1)
              /\ ~didReset => ~changed
        /\ ext.last.kind = "keyup" => (~didReset /\ ~changed)

\* C33 as stated: while the pause key is held over consecutive frames, the first
\* of which follows a frame that saw the key up, the phase is toggled by the
\* pause input exactly once (checked under Spec).
C33_HeldPauseTogglesOnce ==
    (ext.press.frames >= 1 /\ ext.press.edge) => ext.press.toggles = 1

\* C33 as amended: while the pause key is held over consecutive frames the pause
\* input changes the phase at most once, in the first of these frames, and it
\* does so exactly when that frame follows a frame that saw the key up and finds
\* the phase "playing" or "paused"; in any other phase the press is used up
\* without effect.  handlePauseInput pauses or resumes only in a frame in which
\* it changes the phase (checked under Spec).
C33_HeldPauseTogglesAtMostOnce ==
    /\ ext.press.toggles <= 1
    /\ ext.press.frames >= 1 =>
          (ext.press.toggles = 1 <=>
              (ext.press.edge /\ ext.press.phase \in {"playing", "paused"}))
    /\ (trace # <<>> /\ {"pause", "resume"} \cap Range(trace) # {}) =>
          /\ ext.frame.phase # ext.last.phase
          /\ "Escape" \in ext.held
          /\ ext.press.frames = 1

\* the pause key was held over two frames and the game paused once
C33_Witness ==
    /\ ext.press.frames = 2
    /\ ext.press.toggles = 1
    /\ ext.press.edge
    /\ gs.phase = "paused"
    /\ trace # <<>>
    /\ "pause" \notin Range(trace)

\* C34: a delayed gameState.end() scheduled by the death of an earlier run does
\* not end the run started after a restart (checked under SpecRestart).
C34_StaleTimerHarmless == ~ext.staleEnded

\* C35: once the death of the player is processed in a run, no session snapshot
\* is left saved (checked under Spec, where no new run starts).
C35_NoSnapshotAfterDeath == ext.recordRun > 0 => ~ext.snapshot

============================================================================
